---- MODULE Spec2Model ----
(***************************************************************************)
(* The well-being escalation engine and the two-phase registration of the  *)
(* secure-vault server.  The repository holds two storage classes:         *)
(*                                                                         *)
(*   MongoDBStorage  server/mongodb-storage.ts, over the userSchema of     *)
(*                   shared/models.ts:258-286 (well-being fields on User); *)
(*   MongoStorage    the "./storage" the routes import (unnamed/part_000), *)
(*                   over the UserSchema / WellBeingAlertSchema of         *)
(*                   shared/models.ts:108-166.                             *)
(*                                                                         *)
(* Each is modelled with its own collection variables and its own          *)
(* specification: SpecMongoDBStorage for the first, SpecMongoStorage (the  *)
(* well-being routes) and SpecRegistration (the two-phase registration)    *)
(* for the second.                                                         *)
(*                                                                         *)
(* Numbers.  A JSON number n is represented by the integer n * Scale, so   *)
(* that a non-integral number (1.5) is a value of the model: zod's         *)
(* z.number() and mongoose's Number accept it.                             *)
(***************************************************************************)
EXTENDS Integers, Sequences, FiniteSets, TLC

VARIABLES
    userModel,              \* MongoDBStorage: the User collection, id -> document
    User,                   \* MongoStorage: the User collection, _id -> document
    WellBeingAlert,         \* MongoStorage: the WellBeingAlert collection, by userId
    Nominee,                \* MongoStorage: the Nominee collection
    Asset,                  \* MongoStorage: the Asset collection
    MoodEntry,              \* MongoStorage: the MoodEntry collection
    AdminAction,            \* MongoStorage: the AdminAction collection, _id -> document
    pending,                \* the requests received and not yet served
    missedSinceCheckIn,     \* per user, the increments applied since the last
                            \* check-in applied (history)
    registrationTempData,   \* routes: Map tempId -> step1Data
    session,                \* routes-minimal: req.session.registrationStep1
    issuedTokens,           \* the access tokens signed so far, each with the
                            \* route that issued it (history)
    issuedOtps,             \* per identifier, the OTP last sent, when, and
                            \* the logins it has opened (history)
    localStorage,           \* client: window.localStorage, key -> value
    fetched,                \* client: the fetch calls of the apiRequest in
                            \* progress or last finished
    authService,            \* client: the fields of the AuthService instance
    now,                    \* the clock new Date() / Date.now() reads
    request,                \* the request served by the last step
    response                \* its response

mongoStorageVars == <<User, WellBeingAlert>>
registrationVars == <<registrationTempData, session>>
collectionVars == <<Nominee, Asset, MoodEntry, AdminAction>>
concurrencyVars == <<pending, missedSinceCheckIn>>
authVars == <<issuedTokens, issuedOtps>>
clientVars == <<localStorage, fetched, authService>>

vars == <<userModel, User, WellBeingAlert, Nominee, Asset, MoodEntry,
          AdminAction, pending, missedSinceCheckIn, registrationTempData,
          session, issuedTokens, issuedOtps, localStorage, fetched, authService,
          now, request, response>>

-----------------------------------------------------------------------------
(* Bounds *)

Scale == 2
MaxCounter == 2
MaxTime == 1
MaxPending == 2
MaxOtpTime == 2
OtpLifetime == 1
ExpiresIn == 1

Num(n) == n * Scale
IsInteger(x) == x % Scale = 0

\* An optional value: a field that is undefined / not set.
None == <<>>
Some(x) == <<x>>

AdminId == "admin"
UserIds == {"u1"}
Principals == UserIds \cup {AdminId}
Emails == {"a@x.io", "b@x.io"}

-----------------------------------------------------------------------------
(* Request bodies of PUT /api/wellbeing/settings *)

AlertFrequencies == {"custom", "monthly"}
CustomDaysInputs == {None, Some(Num(0)), Some(Num(7)), Some(Num(30) + 1)}
MaxMissedAlertsInputs == {Num(0), Num(1), Num(1) + 1, Num(5), Num(50) + 1}

SettingsBodies ==
    [alertFrequency : AlertFrequencies,
     customDays : CustomDaysInputs,
     alertTime : {"09:00"},
     enableSMS : {TRUE},
     enableEmail : {TRUE},
     maxMissedAlerts : MaxMissedAlertsInputs,
     escalationEnabled : BOOLEAN]

\* wellBeingSettingsSchema.parse succeeds
wellBeingSettingsSchema(body) ==
    /\ body.alertFrequency \in {"daily", "weekly", "custom"}
    /\ \/ body.customDays = None
       \/ /\ body.customDays[1] >= Num(1)
          /\ body.customDays[1] <= Num(30)
    /\ body.maxMissedAlerts >= Num(1)
    /\ body.maxMissedAlerts <= Num(50)

-----------------------------------------------------------------------------
(* Mongoose documents *)

\* An update under the schema's (default) strict mode: a path the schema does
\* not declare is dropped from the update.
StrictUpdate(paths, doc, upd) ==
    [f \in DOMAIN doc |->
        IF f \in DOMAIN upd /\ f \in paths THEN upd[f] ELSE doc[f]]

\* userSchema: the paths of the User model of MongoDBStorage
userSchemaPaths ==
    {"email", "lastWellBeingCheck", "wellBeingCounter", "maxWellBeingLimit",
     "alertFrequency", "customDays", "alertTime", "enableSMS", "enableEmail",
     "escalationEnabled", "accountStatus"}

\* new UserModel({...}): the schema's defaults
NewUserModel(email) ==
    [email |-> email,
     lastWellBeingCheck |-> None,
     wellBeingCounter |-> Num(0),
     maxWellBeingLimit |-> Num(15),
     alertFrequency |-> "daily",
     customDays |-> None,
     alertTime |-> "09:00",
     enableSMS |-> TRUE,
     enableEmail |-> TRUE,
     escalationEnabled |-> TRUE,
     accountStatus |-> "active"]

\* UserModel.updateOne({ id }, update): the first document matching, if any
UpdateOne(store, id, upd) ==
    IF id \in DOMAIN store
    THEN [store EXCEPT ![id] = StrictUpdate(userSchemaPaths, @, upd)]
    ELSE store

-----------------------------------------------------------------------------
(* MongoDBStorage *)

\* createUser: user.save() throws on the unique email index
createUserRejected(store, email) ==
    \E u \in DOMAIN store : store[u].email = email

createUser(store, id, email) ==
    IF createUserRejected(store, email)
    THEN store
    ELSE store @@ (id :> NewUserModel(email))

\* a check-in that refreshes the timestamp only
updateUserWellBeingKeepingCounter(store, userId, date) ==
    UpdateOne(store, userId, [lastWellBeingCheck |-> Some(date)])

\* a check-in that restarts the counter at 1 when it was already 0
updateUserWellBeingToggling(store, userId, date) ==
    UpdateOne(store, userId,
              [lastWellBeingCheck |-> Some(date),
               wellBeingCounter |->
                   IF userId \in DOMAIN store /\ store[userId].wellBeingCounter = 0
                   THEN Num(1) ELSE Num(0)])

updateUserWellBeing(store, userId, date) ==
    UpdateOne(store, userId,
              [lastWellBeingCheck |-> Some(date), wellBeingCounter |-> Num(0)])

\* a settings update that restarts the counter
updateUserWellBeingSettingsResetting(store, userId, settings) ==
    UpdateOne(store, userId, settings @@ [wellBeingCounter |-> Num(0)])

updateUserWellBeingSettings(store, userId, settings) ==
    UpdateOne(store, userId, settings)

\* an increment with { upsert: true }
incrementWellBeingCounterUpsert(store, userId) ==
    IF userId \in DOMAIN store
    THEN [store EXCEPT ![userId].wellBeingCounter = @ + Num(1)]
    ELSE store @@ (userId :>
            [NewUserModel("a@x.io") EXCEPT !.wellBeingCounter = Num(1)])

\* an increment that stops one short of the threshold
incrementWellBeingCounterBelowLimit(store, userId) ==
    IF /\ userId \in DOMAIN store
       /\ store[userId].wellBeingCounter + Num(1) < store[userId].maxWellBeingLimit
    THEN [store EXCEPT ![userId].wellBeingCounter = @ + Num(1)]
    ELSE store

\* an increment that suspends the user whose counter reaches the threshold
incrementWellBeingCounterSuspending(store, userId) ==
    IF userId \in DOMAIN store
    THEN [store EXCEPT ![userId] =
            [@ EXCEPT !.wellBeingCounter = @ + Num(1),
                      !.accountStatus =
                          IF store[userId].wellBeingCounter + Num(1)
                                >= store[userId].maxWellBeingLimit
                          THEN "suspended" ELSE @]]
    ELSE store

incrementWellBeingCounter(store, userId) ==
    IF userId \in DOMAIN store
    THEN [store EXCEPT ![userId].wellBeingCounter = @ + Num(1)]
    ELSE store

\* $expr: { $gte: ['$wellBeingCounter', '$maxWellBeingLimit'] }
getUsersWithExceededLimits(store) ==
    {u \in DOMAIN store :
        store[u].wellBeingCounter >= store[u].maxWellBeingLimit}

\* a status update that removes the document of a deactivated user
updateUserStatusRemoving(store, userId, status) ==
    IF status = "deactivated"
    THEN [u \in DOMAIN store \ {userId} |-> store[u]]
    ELSE UpdateOne(store, userId, [accountStatus |-> status])

updateUserStatus(store, userId, status) ==
    UpdateOne(store, userId, [accountStatus |-> status])

getUser(store, id) ==
    IF id \in DOMAIN store THEN Some(store[id]) ELSE None

-----------------------------------------------------------------------------
(* Routes *)

NoRequest == [route |-> "none", userId |-> AdminId, body |-> None]
NoResponse == [status |-> 0, body |-> None]

\* the settings object PUT /api/wellbeing/settings hands to the storage
SettingsUpdate(body) ==
    [alertFrequency |-> body.alertFrequency,
     customDays |-> body.customDays,
     alertTime |-> body.alertTime,
     enableSMS |-> body.enableSMS,
     enableEmail |-> body.enableEmail,
     maxWellBeingLimit |-> body.maxMissedAlerts,
     escalationEnabled |-> body.escalationEnabled]

\* the settings GET /api/wellbeing/settings returns for a user document
\* user.<path>, undefined standing for a path the document does not have
Path(user, path, undefined) ==
    IF path \in DOMAIN user THEN user[path] ELSE undefined

SettingsOf(user) ==
    [alertFrequency |-> Path(user, "alertFrequency", "daily"),
     customDays |->
        LET customDays == Path(user, "customDays", None)
        IN  IF customDays = None THEN Num(1)
            ELSE IF customDays[1] = 0 THEN Num(1) ELSE customDays[1],
     alertTime |-> Path(user, "alertTime", "09:00"),
     enableSMS |-> Path(user, "enableSMS", TRUE),
     enableEmail |-> Path(user, "enableEmail", TRUE),
     maxMissedAlerts |->
        LET maxWellBeingLimit == Path(user, "maxWellBeingLimit", 0)
        IN  IF maxWellBeingLimit = 0 THEN Num(15) ELSE maxWellBeingLimit,
     escalationEnabled |-> Path(user, "escalationEnabled", TRUE)]

\* An update object whose customDays is undefined: mongoose either drops the
\* key (the stored value stays) or unsets the path, by its version.
OmitUndefined(upd) ==
    [f \in DOMAIN upd \ {"customDays"} |-> upd[f]]

UpdateObjects(upd) ==
    IF upd.customDays = None THEN {upd, OmitUndefined(upd)} ELSE {upd}

-----------------------------------------------------------------------------
(* SpecMongoDBStorage: the operations of MongoDBStorage and the routes that *)
(* validate their input.                                                    *)

Init ==
    /\ userModel = <<>>
    /\ User = <<>>
    /\ WellBeingAlert = <<>>
    /\ Nominee = {}
    /\ Asset = {}
    /\ MoodEntry = {}
    /\ AdminAction = <<>>
    /\ pending = {}
    /\ missedSinceCheckIn = [u \in UserIds |-> 0]
    /\ registrationTempData = <<>>
    /\ session = None
    /\ issuedTokens = {}
    /\ issuedOtps = <<>>
    /\ localStorage = <<>>
    /\ fetched = <<>>
    /\ authService = [accessToken |-> None, refreshToken |-> None,
                      tokenExpiry |-> None]
    /\ now = 0
    /\ request = NoRequest
    /\ response = NoResponse

\* time passes between two requests
Tick ==
    /\ now < MaxTime
    /\ now' = now + 1
    /\ request' = NoRequest
    /\ response' = NoResponse
    /\ UNCHANGED <<authVars, clientVars, collectionVars, concurrencyVars, userModel, mongoStorageVars, registrationVars>>

\* MongoDBStorage.createUser, id: nanoid()
CreateUser ==
    \E id \in UserIds \ DOMAIN userModel, email \in {"a@x.io"} :
        /\ userModel' = createUser(userModel, id, email)
        /\ request' = [route |-> "createUser", userId |-> id,
                       body |-> Some([email |-> email])]
        /\ response' = [status |-> IF createUserRejected(userModel, email)
                                   THEN 500 ELSE 200,
                        body |-> None]
        /\ UNCHANGED <<authVars, clientVars, collectionVars, concurrencyVars, now, mongoStorageVars, registrationVars>>

\* the scheduler's incrementMissed(userId)
IncrementWellBeingCounter ==
    \E userId \in Principals :
        /\ userId \in DOMAIN userModel =>
              userModel[userId].wellBeingCounter < Num(MaxCounter)
        /\ userModel' = incrementWellBeingCounter(userModel, userId)
        /\ request' = [route |-> "incrementMissed", userId |-> userId, body |-> None]
        /\ response' = [status |-> 200, body |-> None]
        /\ UNCHANGED <<authVars, clientVars, collectionVars, concurrencyVars, now, mongoStorageVars, registrationVars>>

\* POST /api/wellbeing/confirm
ConfirmWellBeing ==
    \E userId \in Principals :
        /\ userModel' = updateUserWellBeing(userModel, userId, now)
        /\ request' = [route |-> "POST /api/wellbeing/confirm",
                       userId |-> userId, body |-> None]
        /\ response' = [status |-> 200, body |-> None]
        /\ UNCHANGED <<authVars, clientVars, collectionVars, concurrencyVars, now, mongoStorageVars, registrationVars>>

\* PUT /api/wellbeing/settings
PutWellBeingSettings ==
    \E userId \in Principals, body \in SettingsBodies :
        /\ request' = [route |-> "PUT /api/wellbeing/settings",
                       userId |-> userId, body |-> Some(body)]
        /\ IF wellBeingSettingsSchema(body)
           THEN /\ \E upd \in UpdateObjects(SettingsUpdate(body)) :
                      userModel' = updateUserWellBeingSettings(userModel, userId, upd)
                /\ response' = [status |-> 200, body |-> None]
           ELSE /\ userModel' = userModel
                /\ response' = [status |-> 400, body |-> None]
        /\ UNCHANGED <<authVars, clientVars, collectionVars, concurrencyVars, now, mongoStorageVars, registrationVars>>

\* GET /api/wellbeing/settings
GetWellBeingSettings ==
    \E userId \in Principals :
        /\ request' = [route |-> "GET /api/wellbeing/settings",
                       userId |-> userId, body |-> None]
        /\ response' =
              IF getUser(userModel, userId) = None
              THEN [status |-> 404, body |-> None]
              ELSE [status |-> 200, body |-> Some(SettingsOf(userModel[userId]))]
        /\ UNCHANGED <<authVars, clientVars, collectionVars, concurrencyVars, userModel, now, mongoStorageVars, registrationVars>>

NextMongoDBStorage ==
    \/ Tick
    \/ CreateUser
    \/ IncrementWellBeingCounter
    \/ ConfirmWellBeing
    \/ PutWellBeingSettings
    \/ GetWellBeingSettings

SpecMongoDBStorage == Init /\ [][NextMongoDBStorage]_vars

-----------------------------------------------------------------------------
(* SpecAccountStatus: the well-being operations and the admin's status       *)
(* update over MongoDBStorage                                                *)

\* the statuses PATCH /api/admin/users/:userId/status accepts
AccountStatuses == {"active", "suspended", "deactivated"}

\* the accountStatus values of the request bodies
AccountStatusInputs == AccountStatuses \cup {"inactive"}

\* PATCH /api/admin/users/:userId/status
PatchUserStatus ==
    \E userId \in Principals, accountStatus \in AccountStatusInputs :
        /\ request' = [route |-> "PATCH /api/admin/users/:userId/status",
                       userId |-> userId, body |-> Some(accountStatus)]
        /\ IF accountStatus \notin AccountStatuses
           THEN /\ userModel' = userModel
                /\ response' = [status |-> 400, body |-> None]
           ELSE /\ userModel' = updateUserStatus(userModel, userId, accountStatus)
                /\ response' = [status |-> 200, body |-> None]
        /\ UNCHANGED <<authVars, clientVars, collectionVars, concurrencyVars, now, mongoStorageVars, registrationVars>>

\* GET /api/admin/users-at-risk
GetUsersAtRisk ==
    /\ request' = [route |-> "GET /api/admin/users-at-risk",
                   userId |-> AdminId, body |-> None]
    /\ response' = [status |-> 200,
                    body |-> Some(getUsersWithExceededLimits(userModel))]
    /\ UNCHANGED <<authVars, clientVars, collectionVars, concurrencyVars, userModel, now, mongoStorageVars, registrationVars>>

NextAccountStatus ==
    \/ CreateUser
    \/ IncrementWellBeingCounter
    \/ ConfirmWellBeing
    \/ PutWellBeingSettings
    \/ GetUsersAtRisk
    \/ PatchUserStatus

SpecAccountStatus == Init /\ [][NextAccountStatus]_vars

-----------------------------------------------------------------------------
(* SpecEscalationFair: the scheduler keeps calling incrementMissed for every *)
(* user                                                                      *)

\* the scheduler's incrementMissed(userId) for one user
IncrementFor(userId) ==
    /\ IncrementWellBeingCounter
    /\ request'.userId = userId

NextEscalation ==
    \/ CreateUser
    \/ IncrementWellBeingCounter
    \/ ConfirmWellBeing
    \/ PutWellBeingSettings
    \/ GetUsersAtRisk

SpecEscalationFair ==
    /\ Init
    /\ [][NextEscalation]_vars
    /\ \A userId \in UserIds : WF_vars(IncrementFor(userId))

-----------------------------------------------------------------------------
(* MongoStorage: the "./storage" of the routes, over UserSchema and          *)
(* WellBeingAlertSchema.                                                     *)

ObjectIds == {"u1", "u2"}
Mobiles == {"9000000001", "9000000002"}

\* a string mongoose cannot cast to an ObjectId: the findById* calls throw
CastError(id) == id \notin ObjectIds

\* UserSchema: the paths of the User model of MongoStorage that the model
\* follows; the schema declares no well-being path.
UserSchemaPaths == {"mobileNumber", "email"}

\* WellBeingAlertSchema
WellBeingAlertSchemaPaths == {"maxMissedAlerts", "escalationEnabled", "currentCount"}

\* the _id of a new document
NewObjectId(coll) == CHOOSE id \in ObjectIds \ DOMAIN coll : TRUE

\* User.findByIdAndUpdate(id, update)
FindByIdAndUpdate(coll, id, upd) ==
    IF id \in DOMAIN coll
    THEN [coll EXCEPT ![id] = StrictUpdate(UserSchemaPaths, @, upd)]
    ELSE coll

\* User.findOne({ mobileNumber }), as the set of the documents matching
getUserByMobileNone(coll, mobileNumber) == {}

getUserByMobile(coll, mobileNumber) ==
    {u \in DOMAIN coll : coll[u].mobileNumber = mobileNumber}

\* User.findOne({ email })
getUserByEmail(coll, email) ==
    {u \in DOMAIN coll : coll[u].email = email}

\* a save on a collection without unique indexes
MongoStorage_createUserThrowsNever(coll, userData) == FALSE

\* user.save() throws: the unique indexes on mobileNumber and on email
MongoStorage_createUserThrows(coll, userData) ==
    \E u \in DOMAIN coll :
        \/ coll[u].mobileNumber = userData.mobileNumber
        \/ coll[u].email = userData.email

MongoStorage_createUser(coll, userData) ==
    IF MongoStorage_createUserThrows(coll, userData)
    THEN coll
    ELSE coll @@ (NewObjectId(coll) :>
            [mobileNumber |-> userData.mobileNumber, email |-> userData.email])

MongoStorage_updateUserWellBeing(coll, userId, data) ==
    FindByIdAndUpdate(coll, userId, data)

MongoStorage_updateUserWellBeingSettings(coll, userId, settings) ==
    FindByIdAndUpdate(coll, userId, settings)

\* alert.save() throws: the cast of userId, the min / max validators of
\* maxMissedAlerts, the unique index on userId
createWellBeingAlertThrows(coll, alertData) ==
    \/ CastError(alertData.userId)
    \/ alertData.maxMissedAlerts < Num(1)
    \/ alertData.maxMissedAlerts > Num(50)
    \/ alertData.userId \in DOMAIN coll

createWellBeingAlert(coll, alertData) ==
    IF createWellBeingAlertThrows(coll, alertData)
    THEN coll
    ELSE coll @@ (alertData.userId :>
            [maxMissedAlerts |-> alertData.maxMissedAlerts,
             escalationEnabled |-> TRUE,
             currentCount |-> Num(0)])

\* updateWellBeingAlert throws: the cast of userId, 'Well-being alert not found'
updateWellBeingAlertThrows(coll, userId) ==
    \/ CastError(userId)
    \/ userId \notin DOMAIN coll

updateWellBeingAlert(coll, userId, alertData) ==
    IF updateWellBeingAlertThrows(coll, userId)
    THEN coll
    ELSE [coll EXCEPT ![userId] =
            StrictUpdate(WellBeingAlertSchemaPaths, @, alertData)]

\* the alerts with currentCount >= maxMissedAlerts, then the users of their
\* userIds
MongoStorage_getUsersWithExceededLimits(users, alerts) ==
    LET userIds == {a \in DOMAIN alerts :
                        alerts[a].currentCount >= alerts[a].maxMissedAlerts}
    IN  {u \in DOMAIN users : u \in userIds}

-----------------------------------------------------------------------------
(* SpecMongoStorage: the well-being routes over MongoStorage *)

\* the bodies the routes are given in this specification
MongoStorageSettingsBodies ==
    {body \in SettingsBodies :
        /\ body.alertFrequency = "custom"
        /\ body.customDays = Some(Num(7))
        /\ body.escalationEnabled}

AlertData ==
    [userId : ObjectIds \cup {AdminId},
     maxMissedAlerts : {Num(0), Num(1)}]

AlertUpdates ==
    {[currentCount |-> Num(c)] : c \in 0..MaxCounter}
        \cup {[escalationEnabled |-> b] : b \in BOOLEAN}
        \cup {[maxMissedAlerts |-> Num(0)]}

\* storage.createUser(userData)
MongoStorageCreateUser ==
    \E userData \in [mobileNumber : Mobiles, email : Emails] :
        /\ User' = MongoStorage_createUser(User, userData)
        /\ request' = [route |-> "createUser", userId |-> AdminId,
                       body |-> Some(userData)]
        /\ response' = [status |-> IF MongoStorage_createUserThrows(User, userData)
                                   THEN 500 ELSE 200,
                        body |-> None]
        /\ UNCHANGED <<authVars, clientVars, collectionVars, concurrencyVars, userModel, WellBeingAlert, registrationVars, now>>

\* storage.createWellBeingAlert(alertData)
CreateWellBeingAlert ==
    \E alertData \in AlertData :
        /\ WellBeingAlert' = createWellBeingAlert(WellBeingAlert, alertData)
        /\ request' = [route |-> "createWellBeingAlert",
                       userId |-> alertData.userId, body |-> Some(alertData)]
        /\ response' =
              [status |-> IF createWellBeingAlertThrows(WellBeingAlert, alertData)
                          THEN 500 ELSE 200,
               body |-> None]
        /\ UNCHANGED <<authVars, clientVars, collectionVars, concurrencyVars, userModel, User, registrationVars, now>>

\* storage.updateWellBeingAlert(userId, alertData)
UpdateWellBeingAlert ==
    \E userId \in ObjectIds \cup {AdminId}, alertData \in AlertUpdates :
        /\ WellBeingAlert' = updateWellBeingAlert(WellBeingAlert, userId, alertData)
        /\ request' = [route |-> "updateWellBeingAlert",
                       userId |-> userId, body |-> Some(alertData)]
        /\ response' =
              [status |-> IF updateWellBeingAlertThrows(WellBeingAlert, userId)
                          THEN 500 ELSE 200,
               body |-> None]
        /\ UNCHANGED <<authVars, clientVars, collectionVars, concurrencyVars, userModel, User, registrationVars, now>>

\* POST /api/wellbeing/confirm of routes
RoutesConfirmWellBeing ==
    \E userId \in ObjectIds \cup {AdminId} :
        /\ request' = [route |-> "POST /api/wellbeing/confirm",
                       userId |-> userId, body |-> None]
        /\ IF CastError(userId)
           THEN /\ User' = User
                /\ response' = [status |-> 500, body |-> None]
           ELSE /\ User' = MongoStorage_updateUserWellBeing(User, userId,
                               [lastWellBeingCheck |-> Some(now),
                                wellBeingCounter |-> Num(0)])
                /\ response' = [status |-> 200, body |-> None]
        /\ UNCHANGED <<authVars, clientVars, collectionVars, concurrencyVars, userModel, WellBeingAlert, registrationVars, now>>

\* PUT /api/wellbeing/settings of routes
RoutesPutWellBeingSettings ==
    \E userId \in ObjectIds \cup {AdminId}, body \in MongoStorageSettingsBodies :
        /\ request' = [route |-> "PUT /api/wellbeing/settings",
                       userId |-> userId, body |-> Some(body)]
        /\ IF ~wellBeingSettingsSchema(body) \/ CastError(userId)
           THEN /\ User' = User
                /\ response' = [status |-> 400, body |-> None]
           ELSE /\ User' = MongoStorage_updateUserWellBeingSettings(User, userId,
                               SettingsUpdate(body))
                /\ response' = [status |-> 200, body |-> None]
        /\ UNCHANGED <<authVars, clientVars, collectionVars, concurrencyVars, userModel, WellBeingAlert, registrationVars, now>>

\* PUT /api/wellbeing/settings of routes-minimal: getUserById, then
\* updateUser with { ...user, <settings> } when there is a user.  The spread
\* of the hydrated document adds mongoose's own keys to the update object,
\* which findByIdAndUpdate either drops or rejects, by its version.
MinimalPutWellBeingSettings ==
    \E userId \in ObjectIds \cup {AdminId}, body \in MongoStorageSettingsBodies,
       rejects \in BOOLEAN :
        /\ request' = [route |-> "minimal PUT /api/wellbeing/settings",
                       userId |-> userId, body |-> Some(body)]
        /\ IF ~wellBeingSettingsSchema(body) \/ CastError(userId)
           THEN /\ User' = User
                /\ response' = [status |-> 400, body |-> None]
           ELSE IF userId \in DOMAIN User /\ rejects
           THEN /\ User' = User
                /\ response' = [status |-> 400, body |-> None]
           ELSE /\ User' = FindByIdAndUpdate(User, userId, SettingsUpdate(body))
                /\ response' = [status |-> 200, body |-> None]
        /\ UNCHANGED <<authVars, clientVars, collectionVars, concurrencyVars, userModel, WellBeingAlert, registrationVars, now>>

\* GET /api/wellbeing/settings of routes
RoutesGetWellBeingSettings ==
    \E userId \in ObjectIds \cup {AdminId} :
        /\ request' = [route |-> "GET /api/wellbeing/settings",
                       userId |-> userId, body |-> None]
        /\ response' =
              IF CastError(userId) THEN [status |-> 500, body |-> None]
              ELSE IF userId \notin DOMAIN User THEN [status |-> 404, body |-> None]
              ELSE [status |-> 200, body |-> Some(SettingsOf(User[userId]))]
        /\ UNCHANGED <<authVars, clientVars, collectionVars, concurrencyVars, userModel, mongoStorageVars, registrationVars, now>>

NextMongoStorage ==
    \/ MongoStorageCreateUser
    \/ CreateWellBeingAlert
    \/ UpdateWellBeingAlert
    \/ RoutesConfirmWellBeing
    \/ RoutesPutWellBeingSettings
    \/ MinimalPutWellBeingSettings
    \/ RoutesGetWellBeingSettings

SpecMongoStorage == Init /\ [][NextMongoStorage]_vars

-----------------------------------------------------------------------------
(* SpecRegistration: the two-phase registration of routes (the tempId map)  *)
(* and of routes-minimal (the session), over MongoStorage.                   *)

\* mobileNumber + '_' + Date.now()
TempId(mobileNumber, time) == <<mobileNumber, time>>
TempIds == {TempId(m, t) : m \in Mobiles, t \in 0..MaxTime}

\* Map.set / Map.delete
MapSet(map, key, value) ==
    [k \in DOMAIN map \cup {key} |-> IF k = key THEN value ELSE map[k]]
\* a delete that leaves the entry in the map
MapDeleteNothing(map, key) == map

MapDelete(map, key) ==
    [k \in DOMAIN map \ {key} |-> map[k]]

\* POST /api/register/step1 of routes
RegisterStep1 ==
    \E mobileNumber \in Mobiles :
        /\ request' = [route |-> "POST /api/register/step1", userId |-> AdminId,
                       body |-> Some([mobileNumber |-> mobileNumber])]
        /\ IF getUserByMobile(User, mobileNumber) # {}
           THEN /\ response' = [status |-> 400, body |-> None]
                /\ registrationTempData' = registrationTempData
           ELSE /\ registrationTempData' =
                      MapSet(registrationTempData, TempId(mobileNumber, now),
                             [mobileNumber |-> mobileNumber])
                /\ response' = [status |-> 200,
                                body |-> Some(TempId(mobileNumber, now))]
        /\ UNCHANGED <<authVars, clientVars, collectionVars, concurrencyVars, userModel, mongoStorageVars, session, now>>

\* POST /api/register/step2 of routes
RegisterStep2 ==
    \E tempId \in TempIds, email \in Emails :
        /\ request' = [route |-> "POST /api/register/step2", userId |-> AdminId,
                       body |-> Some([tempId |-> tempId, email |-> email])]
        /\ IF tempId \notin DOMAIN registrationTempData
           THEN /\ response' = [status |-> 400, body |-> None]
                /\ UNCHANGED <<User, registrationTempData>>
           ELSE LET step1Data == registrationTempData[tempId]
                    userData == [mobileNumber |-> step1Data.mobileNumber,
                                 email |-> email]
                IN  IF \/ getUserByEmail(User, email) # {}
                       \/ MongoStorage_createUserThrows(User, userData)
                    THEN /\ response' = [status |-> 400, body |-> None]
                         /\ UNCHANGED <<User, registrationTempData>>
                    ELSE /\ User' = MongoStorage_createUser(User, userData)
                         /\ registrationTempData' =
                               MapDelete(registrationTempData, tempId)
                         /\ response' = [status |-> 200, body |-> None]
        /\ UNCHANGED <<authVars, clientVars, collectionVars, concurrencyVars, userModel, WellBeingAlert, session, now>>

\* POST /api/register/step1 of routes-minimal
MinimalRegisterStep1 ==
    \E mobileNumber \in Mobiles :
        /\ request' = [route |-> "minimal POST /api/register/step1",
                       userId |-> AdminId,
                       body |-> Some([mobileNumber |-> mobileNumber])]
        /\ IF getUserByMobile(User, mobileNumber) # {}
           THEN /\ response' = [status |-> 400, body |-> None]
                /\ session' = session
           ELSE /\ session' = Some([mobileNumber |-> mobileNumber])
                /\ response' = [status |-> 200, body |-> None]
        /\ UNCHANGED <<authVars, clientVars, collectionVars, concurrencyVars, userModel, mongoStorageVars, registrationTempData, now>>

\* POST /api/register/step2 of routes-minimal
MinimalRegisterStep2 ==
    \E email \in Emails :
        /\ request' = [route |-> "minimal POST /api/register/step2",
                       userId |-> AdminId, body |-> Some([email |-> email])]
        /\ IF session = None
           THEN /\ response' = [status |-> 400, body |-> None]
                /\ UNCHANGED <<User, session>>
           ELSE LET step1Data == session[1]
                    userData == [mobileNumber |-> step1Data.mobileNumber,
                                 email |-> email]
                IN  IF \/ getUserByEmail(User, email) # {}
                       \/ MongoStorage_createUserThrows(User, userData)
                    THEN /\ response' = [status |-> 400, body |-> None]
                         /\ UNCHANGED <<User, session>>
                    ELSE /\ User' = MongoStorage_createUser(User, userData)
                         /\ session' = None
                         /\ response' = [status |-> 200, body |-> None]
        /\ UNCHANGED <<authVars, clientVars, collectionVars, concurrencyVars, userModel, WellBeingAlert, registrationTempData, now>>

NextRegistration ==
    \/ Tick
    \/ RegisterStep1
    \/ RegisterStep2
    \/ MinimalRegisterStep1
    \/ MinimalRegisterStep2

SpecRegistration == Init /\ [][NextRegistration]_vars

\* time passes, whatever requests arrive
SpecRegistrationFair == SpecRegistration /\ WF_vars(Tick)

\* a step 2 naming tempId would create a User for some email
Step2Accepts(tempId) ==
    /\ tempId \in DOMAIN registrationTempData
    /\ \E email \in Emails :
          /\ getUserByEmail(User, email) = {}
          /\ ~MongoStorage_createUserThrows(User,
                [mobileNumber |-> registrationTempData[tempId].mobileNumber,
                 email |-> email])

-----------------------------------------------------------------------------
(* SpecAuth: the routes that sign access tokens, and requireAdmin *)

AdminEmail == "admin@aulnovatechsoft.com"
AdminPassword == "Admin@123"
AuthEmails == {"a@x.io", AdminEmail}
Passwords == {AdminPassword, "password1"}

\* AuthService.generateAccessToken(user): the payload that is signed
generateAccessToken(userId, email) ==
    [userId |-> userId, email |-> email, type |-> "access"]

\* AuthService.generateRefreshToken(user)
generateRefreshToken(userId, email) ==
    [userId |-> userId, email |-> email, type |-> "refresh"]

\* AuthService.verifyAccessToken(token) succeeds
verifyAccessToken(token) == token.type = "access"

\* requireAdmin calls next(): the token verifies and its email is the admin's
requireAdmin(token) ==
    /\ verifyAccessToken(token)
    /\ token.email = AdminEmail

\* the tokens of a persisted user, signed by a route
IssueTokens(route, userId) ==
    issuedTokens' = issuedTokens \cup
        {[token |-> generateAccessToken(userId, User[userId].email),
          issuedBy |-> route],
         [token |-> generateRefreshToken(userId, User[userId].email),
          issuedBy |-> route]}

\* POST /api/register/step2 of routes, with the tokens it returns
RegisterStep2Tokens ==
    \E tempId \in TempIds, email \in AuthEmails :
        /\ request' = [route |-> "POST /api/register/step2", userId |-> AdminId,
                       body |-> Some([tempId |-> tempId, email |-> email])]
        /\ IF tempId \notin DOMAIN registrationTempData
           THEN /\ response' = [status |-> 400, body |-> None]
                /\ UNCHANGED <<User, registrationTempData, issuedTokens>>
           ELSE LET step1Data == registrationTempData[tempId]
                    userData == [mobileNumber |-> step1Data.mobileNumber,
                                 email |-> email]
                    user == NewObjectId(User)
                IN  IF \/ getUserByEmail(User, email) # {}
                       \/ MongoStorage_createUserThrows(User, userData)
                    THEN /\ response' = [status |-> 400, body |-> None]
                         /\ UNCHANGED <<User, registrationTempData, issuedTokens>>
                    ELSE /\ User' = MongoStorage_createUser(User, userData)
                         /\ issuedTokens' = issuedTokens \cup
                               {[token |-> generateAccessToken(user, email),
                                 issuedBy |-> "POST /api/register/step2"],
                                [token |-> generateRefreshToken(user, email),
                                 issuedBy |-> "POST /api/register/step2"]}
                         /\ registrationTempData' =
                               MapDelete(registrationTempData, tempId)
                         /\ response' = [status |-> 200, body |-> None]
        /\ UNCHANGED <<issuedOtps, clientVars, collectionVars, concurrencyVars, userModel, WellBeingAlert, session, now>>

\* POST /api/login with a password: the admin branch first, then the users
LoginPassword ==
    \E identifier \in AuthEmails \cup Mobiles, password \in Passwords,
       isValidPassword \in BOOLEAN :
        /\ request' = [route |-> "POST /api/login", userId |-> AdminId,
                       body |-> Some([identifier |-> identifier,
                                      password |-> password])]
        /\ IF identifier = AdminEmail /\ password = AdminPassword
           THEN /\ issuedTokens' = issuedTokens \cup
                      {[token |-> generateAccessToken(AdminId, AdminEmail),
                        issuedBy |-> "POST /api/login (admin)"],
                       [token |-> generateRefreshToken(AdminId, AdminEmail),
                        issuedBy |-> "POST /api/login (admin)"]}
                /\ response' = [status |-> 200, body |-> None]
           ELSE LET byEmail == getUserByEmail(User, identifier)
                    found == IF byEmail # {} THEN byEmail
                             ELSE getUserByMobile(User, identifier)
                IN  IF found = {} \/ ~isValidPassword
                    THEN /\ issuedTokens' = issuedTokens
                         /\ response' = [status |-> 401, body |-> None]
                    ELSE /\ \E user \in found : IssueTokens("POST /api/login", user)
                         /\ response' = [status |-> 200, body |-> None]
        /\ UNCHANGED <<issuedOtps, clientVars, collectionVars, concurrencyVars, userModel, mongoStorageVars, registrationVars, now>>

\* POST /api/auth/google, POST /api/auth/apple: a new user's mobileNumber ''
\* fails the required validator of UserSchema, an existing user gets tokens
OAuthLogin ==
    \E route \in {"POST /api/auth/google", "POST /api/auth/apple"},
       email \in AuthEmails :
        /\ request' = [route |-> route, userId |-> AdminId,
                       body |-> Some([email |-> email])]
        /\ IF getUserByEmail(User, email) = {}
           THEN /\ issuedTokens' = issuedTokens
                /\ response' = [status |-> 500, body |-> None]
           ELSE /\ \E user \in getUserByEmail(User, email) :
                      IssueTokens(route, user)
                /\ response' = [status |-> 200, body |-> None]
        /\ UNCHANGED <<issuedOtps, clientVars, collectionVars, concurrencyVars, userModel, mongoStorageVars, registrationVars, now>>

\* POST /api/auth/refresh: verifyRefreshToken, storage.getUser(decoded.userId)
AuthRefresh ==
    \E t \in issuedTokens :
        /\ request' = [route |-> "POST /api/auth/refresh", userId |-> t.token.userId,
                       body |-> Some(t.token)]
        /\ IF t.token.type # "refresh" \/ CastError(t.token.userId)
           THEN /\ issuedTokens' = issuedTokens
                /\ response' = [status |-> 401, body |-> None]
           ELSE IF t.token.userId \notin DOMAIN User
           THEN /\ issuedTokens' = issuedTokens
                /\ response' = [status |-> 404, body |-> None]
           ELSE /\ IssueTokens("POST /api/auth/refresh", t.token.userId)
                /\ response' = [status |-> 200, body |-> None]
        /\ UNCHANGED <<issuedOtps, clientVars, collectionVars, concurrencyVars, userModel, mongoStorageVars, registrationVars, now>>

\* a request with a signed token to a route behind requireAdmin
AdminRoute ==
    \E t \in issuedTokens :
        /\ request' = [route |-> "requireAdmin", userId |-> t.token.userId,
                       body |-> Some(t)]
        /\ response' =
              [status |-> IF ~verifyAccessToken(t.token) THEN 401
                          ELSE IF ~requireAdmin(t.token) THEN 403 ELSE 200,
               body |-> None]
        /\ UNCHANGED <<authVars, clientVars, collectionVars, concurrencyVars, userModel, mongoStorageVars, registrationVars, now>>

NextAuth ==
    \/ RegisterStep1
    \/ RegisterStep2Tokens
    \/ LoginPassword
    \/ OAuthLogin
    \/ AuthRefresh
    \/ AdminRoute

SpecAuth == Init /\ [][NextAuth]_vars

-----------------------------------------------------------------------------
(* SpecOtp: POST /api/send-otp and the OTP branch of POST /api/login *)

Otps == {"111111", "222222"}
\* the identifiers submitted: an email and a mobile number
Identifiers == {"a@x.io", "9000000002"}

\* `otp_${identifier}`
OtpKey(identifier) == <<"otp", identifier>>

\* storage.getUserByEmail(identifier), else storage.getUserByMobile(identifier)
FindUserByIdentifier(coll, identifier) ==
    IF getUserByEmail(coll, identifier) # {}
    THEN getUserByEmail(coll, identifier)
    ELSE getUserByMobile(coll, identifier)

\* time passes, up to past the lifetime of an OTP
OtpTick ==
    /\ now < MaxOtpTime
    /\ now' = now + 1
    /\ request' = NoRequest
    /\ response' = NoResponse
    /\ UNCHANGED <<authVars, clientVars, collectionVars, concurrencyVars, userModel, mongoStorageVars, registrationVars>>

\* POST /api/send-otp
SendOtp ==
    \E identifier \in Identifiers, otp \in Otps :
        /\ request' = [route |-> "POST /api/send-otp", userId |-> AdminId,
                       body |-> Some([identifier |-> identifier])]
        /\ IF FindUserByIdentifier(User, identifier) = {}
           THEN /\ response' = [status |-> 404, body |-> None]
                /\ UNCHANGED <<registrationTempData, issuedOtps>>
           ELSE /\ registrationTempData' =
                      MapSet(registrationTempData, OtpKey(identifier),
                             [otp |-> otp, otpExpiry |-> now + OtpLifetime])
                /\ issuedOtps' =
                      MapSet(issuedOtps, identifier,
                             [otp |-> otp, issuedAt |-> now, logins |-> 0])
                /\ response' = [status |-> 200, body |-> Some(otp)]
        /\ UNCHANGED <<issuedTokens, clientVars, collectionVars, concurrencyVars, userModel, mongoStorageVars, session, now>>

\* POST /api/login with an otp
LoginOtp ==
    \E identifier \in Identifiers, otp \in Otps :
        LET tempKey == OtpKey(identifier)
            found == FindUserByIdentifier(User, identifier)
        IN  /\ request' = [route |-> "POST /api/login", userId |-> AdminId,
                           body |-> Some([identifier |-> identifier, otp |-> otp])]
            /\ IF found = {}
               THEN /\ response' = [status |-> 401, body |-> Some("Invalid credentials")]
                    /\ UNCHANGED <<registrationTempData, authVars>>
               ELSE IF \/ tempKey \notin DOMAIN registrationTempData
                       \/ registrationTempData[tempKey].otp # otp
               THEN /\ response' = [status |-> 401,
                                    body |-> Some("Invalid or expired OTP")]
                    /\ UNCHANGED <<registrationTempData, authVars>>
               ELSE IF now > registrationTempData[tempKey].otpExpiry
               THEN /\ registrationTempData' =
                          MapDelete(registrationTempData, tempKey)
                    /\ response' = [status |-> 401, body |-> Some("OTP expired")]
                    /\ UNCHANGED authVars
               ELSE /\ registrationTempData' =
                          MapDelete(registrationTempData, tempKey)
                    /\ \E user \in found : IssueTokens("POST /api/login", user)
                    /\ issuedOtps' = [issuedOtps EXCEPT ![identifier].logins = @ + 1]
                    /\ response' = [status |-> 200, body |-> None]
            /\ UNCHANGED <<clientVars, collectionVars, concurrencyVars, userModel, mongoStorageVars, session, now>>

NextOtp ==
    \/ OtpTick
    \/ MongoStorageCreateUser
    \/ SendOtp
    \/ LoginOtp

SpecOtp == Init /\ [][NextOtp]_vars

-----------------------------------------------------------------------------
(* SpecClient: apiRequest of queryClient.ts and the token handling of the    *)
(* AuthService of the client. The answers of the server are inputs.          *)

\* the token pairs the server issues
TokenPairs == {<<"a1", "r1">>, <<"a2", "r2">>}
Methods == {"GET", "POST"}
BodyMethods == {"POST", "PUT", "PATCH"}
Signatures == {"new", "old"}
TokenKeys == {"accessToken", "refreshToken", "tokenExpiry"}

\* what a fetch resolves to: the status and the fields of the JSON body that
\* the client reads; status 0 stands for a fetch that rejects
ServerAnswer(status, success, accessToken, refreshToken) ==
    [status |-> status, success |-> success,
     accessToken |-> accessToken, refreshToken |-> refreshToken]
NetworkError == ServerAnswer(0, FALSE, None, None)
PlainAnswers ==
    {ServerAnswer(200, FALSE, None, None), ServerAnswer(401, FALSE, None, None)}
TokenAnswers ==
    {ServerAnswer(200, TRUE, Some(pair[1]), Some(pair[2])) : pair \in TokenPairs}
Answers == PlainAnswers \cup TokenAnswers \cup {NetworkError}

\* { ...a, ...b }: the properties of b override those of a
Spread(a, b) ==
    [k \in DOMAIN a \cup DOMAIN b |-> IF k \in DOMAIN b THEN b[k] ELSE a[k]]

ContentType == [k \in {"Content-Type"} |-> "application/json"]
Bearer(token) == <<"Bearer", token>>
Authorization(token) == [k \in {"Authorization"} |-> Bearer(token)]

\* getAuthHeaders()
getAuthHeaders(storage) ==
    IF "accessToken" \in DOMAIN storage
    THEN Authorization(storage["accessToken"])
    ELSE <<>>

\* the three localStorage.setItem calls
setTokens(storage, tokens, time) ==
    MapSet(MapSet(MapSet(storage, "accessToken", tokens.accessToken[1]),
                  "refreshToken", tokens.refreshToken[1]),
           "tokenExpiry", time + ExpiresIn)

\* removal that forgets the refresh token and the expiry
removeTokensAccessOnly(storage) == MapDelete(storage, "accessToken")

\* the three localStorage.removeItem calls
removeTokens(storage) ==
    MapDelete(MapDelete(MapDelete(storage, "accessToken"), "refreshToken"),
              "tokenExpiry")

FetchCall(url, method, headers, body) ==
    [url |-> url, method |-> method, headers |-> headers, body |-> body]

\* what apiRequest hands back for the answer res when nothing was retried:
\* the Response (new signature), its JSON, or an exception
Return(signature, res) ==
    IF signature = "new" THEN [kind |-> "Response", res |-> res]
    ELSE IF res.status = 200 THEN [kind |-> "json", res |-> res]
    ELSE [kind |-> "throws", res |-> res]

\* apiRequest: the localStorage it leaves, the fetch calls it makes and what
\* it returns, given the answers to the request, to the refresh and to the
\* retry
apiRequest(storage, signature, method, url, payload, res, refreshRes, retryRes, time) ==
    LET options ==
            [method |-> method,
             headers |-> Spread(ContentType, getAuthHeaders(storage)),
             body |-> IF signature = "new"
                      THEN IF payload # None /\ method \in BodyMethods
                           THEN payload ELSE None
                      ELSE payload]
        data == IF signature = "new" THEN payload ELSE None
        first == FetchCall(url, options.method, options.headers, options.body)
        out(st, calls, result) ==
            [localStorage |-> st, fetched |-> calls, result |-> result]
    IN  IF res.status = 0
        THEN out(storage, <<first>>, [kind |-> "throws", res |-> res])
        ELSE IF res.status # 401
        THEN out(storage, <<first>>, Return(signature, res))
        ELSE IF "refreshToken" \notin DOMAIN storage
        THEN out(removeTokens(storage), <<first>>, Return(signature, res))
        ELSE
        LET refresh ==
                FetchCall("/api/auth/refresh", "POST", ContentType,
                          Some([refreshToken |-> storage["refreshToken"]]))
            stored == setTokens(storage, refreshRes, time)
            newHeaders ==
                Spread(Spread(ContentType,
                              Authorization(refreshRes.accessToken[1])),
                       options.headers)
            retry ==
                FetchCall(url, method, newHeaders,
                          IF data # None /\ method \in BodyMethods
                          THEN data ELSE None)
        IN  IF refreshRes.status = 200 /\ refreshRes.success
            THEN IF retryRes.status = 0
                 THEN out(removeTokens(stored), <<first, refresh, retry>>,
                          Return(signature, res))
                 ELSE out(stored, <<first, refresh, retry>>,
                          [kind |-> "Response", res |-> retryRes])
            ELSE out(removeTokens(storage), <<first, refresh>>,
                     Return(signature, res))

\* saveTokensToStorage(tokens)
saveTokensToStorage(tokens, time) ==
    [accessToken |-> tokens.accessToken, refreshToken |-> tokens.refreshToken,
     tokenExpiry |-> Some(time + ExpiresIn)]

\* the fields after clearTokensFromStorage()
ClearedTokens == [accessToken |-> None, refreshToken |-> None, tokenExpiry |-> None]

\* a component calls apiRequest
ApiRequest ==
    \E signature \in Signatures, method \in Methods,
       payload \in {None, Some([data |-> "d"])},
       res \in PlainAnswers \cup {NetworkError},
       refreshRes \in Answers, retryRes \in PlainAnswers \cup {NetworkError} :
        LET r == apiRequest(localStorage, signature, method, "/api/mood",
                            payload, res, refreshRes, retryRes, now)
        IN  /\ payload # None => method = "POST"
            /\ localStorage' = r.localStorage
            /\ fetched' = r.fetched
            /\ request' = [route |-> "apiRequest", userId |-> AdminId,
                           body |-> Some([signature |-> signature,
                                          refreshRes |-> refreshRes])]
            /\ response' = [status |-> r.result.res.status,
                            body |-> Some(r.result.kind)]
            /\ UNCHANGED <<authService, authVars, collectionVars, concurrencyVars, userModel, mongoStorageVars, registrationVars, now>>

\* AuthService.login(identifier, password)
ClientLogin ==
    \E res \in Answers, refreshRes \in Answers,
       retryRes \in PlainAnswers \cup {NetworkError} :
        LET r == apiRequest(localStorage, "old", "POST", "/api/login",
                            Some([data |-> "credentials"]),
                            res, refreshRes, retryRes, now)
            saved == r.result.kind = "json" /\ r.result.res.success
        IN  /\ fetched' = r.fetched
            /\ localStorage' = IF saved
                               THEN setTokens(r.localStorage, r.result.res, now)
                               ELSE r.localStorage
            /\ authService' = IF saved
                              THEN saveTokensToStorage(r.result.res, now)
                              ELSE authService
            /\ request' = [route |-> "AuthService.login", userId |-> AdminId,
                           body |-> Some([signature |-> "old",
                                          refreshRes |-> refreshRes])]
            /\ response' = [status |-> r.result.res.status,
                            body |-> Some(r.result.kind)]
            /\ UNCHANGED <<authVars, collectionVars, concurrencyVars, userModel, mongoStorageVars, registrationVars, now>>

\* AuthService.refreshAccessToken(), with the logout() it starts
RefreshAccessToken ==
    \E res \in Answers, refreshRes \in Answers,
       retryRes \in PlainAnswers \cup {NetworkError} :
        LET r == apiRequest(localStorage, "old", "POST", "/api/auth/refresh",
                            Some([refreshToken |-> authService.refreshToken]),
                            res, refreshRes, retryRes, now)
            saved == r.result.kind = "json" /\ r.result.res.success
        IN  /\ request' = [route |-> "AuthService.refreshAccessToken",
                           userId |-> AdminId,
                           body |-> Some([signature |-> "old",
                                          refreshRes |-> refreshRes])]
            /\ IF authService.refreshToken = None
               THEN /\ fetched' = <<>>
                    /\ localStorage' = removeTokens(localStorage)
                    /\ authService' = ClearedTokens
                    /\ response' = [status |-> 0, body |-> Some("false")]
               ELSE /\ fetched' = r.fetched
                    /\ localStorage' =
                          IF saved
                          THEN setTokens(r.localStorage, r.result.res, now)
                          ELSE removeTokens(r.localStorage)
                    /\ authService' =
                          IF saved
                          THEN saveTokensToStorage(r.result.res, now)
                          ELSE ClearedTokens
                    /\ response' = [status |-> r.result.res.status,
                                    body |-> Some(IF saved THEN "true" ELSE "false")]
            /\ UNCHANGED <<authVars, collectionVars, concurrencyVars, userModel, mongoStorageVars, registrationVars, now>>

NextClient ==
    \/ ApiRequest
    \/ ClientLogin
    \/ RefreshAccessToken

SpecClient == Init /\ [][NextClient]_vars

-----------------------------------------------------------------------------
(* SpecCollections: the per-user collections of MongoStorage (nominees,     *)
(* assets, mood entries, alerts) and the routes that fill them.             *)

FullNames == {"n1"}

\* nominee.save() throws: the cast of userId to an ObjectId
createNomineeThrowsNever(nomineeData) == FALSE

createNomineeThrows(nomineeData) == CastError(nomineeData.userId)

\* MongoStorage.createNominee: new Nominee(nomineeData).save()
createNominee(coll, nomineeData) ==
    IF createNomineeThrows(nomineeData) THEN coll ELSE coll \cup {nomineeData}

\* MongoStorage.createAsset
createAssetThrows(assetData) == CastError(assetData.userId)

createAsset(coll, assetData) ==
    IF createAssetThrows(assetData) THEN coll ELSE coll \cup {assetData}

\* MongoStorage.createMoodEntry
createMoodEntryThrows(entryData) == CastError(entryData.userId)

createMoodEntry(coll, entryData) ==
    IF createMoodEntryThrows(entryData) THEN coll ELSE coll \cup {entryData}

getNomineesByUserId(coll, userId) ==
    IF userId = "admin" THEN {} ELSE {r \in coll : r.userId = userId}

getAssetsByUserId(coll, userId) ==
    IF userId = "admin" THEN {} ELSE {r \in coll : r.userId = userId}

getMoodEntriesByUserId(coll, userId) ==
    IF userId = "admin" THEN {} ELSE {r \in coll : r.userId = userId}

\* getRecentMoodEntries, getUserMoodEntries: the same query, sorted / limited
getUserMoodEntries(coll, userId) ==
    IF userId = "admin" THEN {} ELSE {r \in coll : r.userId = userId}

\* getUserLatestMood: one entry of the user, or null
getUserLatestMood(coll, userId) ==
    IF userId = "admin" THEN None
    ELSE IF {r \in coll : r.userId = userId} = {} THEN None
    ELSE Some(CHOOSE r \in coll : r.userId = userId)

\* getWellBeingAlerts(userId), as the userIds of the alerts found
getWellBeingAlerts(coll, userId) ==
    IF userId = "admin" THEN {} ELSE {a \in DOMAIN coll : a = userId}

\* POST /api/nominees of routes
PostNominees ==
    \E userId \in ObjectIds \cup {AdminId}, fullName \in FullNames :
        LET nomineeWithUserId == [userId |-> userId, fullName |-> fullName]
        IN  /\ request' = [route |-> "POST /api/nominees", userId |-> userId,
                           body |-> Some([fullName |-> fullName])]
            /\ Nominee' = createNominee(Nominee, nomineeWithUserId)
            /\ response' = [status |-> IF createNomineeThrows(nomineeWithUserId)
                                       THEN 400 ELSE 200,
                            body |-> None]
            /\ UNCHANGED <<authVars, clientVars, userModel, mongoStorageVars, Asset, MoodEntry,
                           AdminAction, concurrencyVars, registrationVars, now>>

\* POST /api/assets of routes
PostAssets ==
    \E userId \in ObjectIds \cup {AdminId}, title \in FullNames :
        LET assetData == [userId |-> userId, title |-> title]
        IN  /\ request' = [route |-> "POST /api/assets", userId |-> userId,
                           body |-> Some([title |-> title])]
            /\ Asset' = createAsset(Asset, assetData)
            /\ response' = [status |-> IF createAssetThrows(assetData)
                                       THEN 400 ELSE 200,
                            body |-> None]
            /\ UNCHANGED <<authVars, clientVars, userModel, mongoStorageVars, Nominee, MoodEntry,
                           AdminAction, concurrencyVars, registrationVars, now>>

\* POST /api/mood of routes
PostMood ==
    \E userId \in ObjectIds \cup {AdminId}, mood \in FullNames :
        LET moodData == [userId |-> userId, mood |-> mood]
        IN  /\ request' = [route |-> "POST /api/mood", userId |-> userId,
                           body |-> Some([mood |-> mood])]
            /\ MoodEntry' = createMoodEntry(MoodEntry, moodData)
            /\ response' = [status |-> IF createMoodEntryThrows(moodData)
                                       THEN 400 ELSE 200,
                            body |-> None]
            /\ UNCHANGED <<authVars, clientVars, userModel, mongoStorageVars, Nominee, Asset,
                           AdminAction, concurrencyVars, registrationVars, now>>

\* GET /api/nominees of routes: storage.getNominees is getNomineesByUserId
GetNominees ==
    \E userId \in ObjectIds \cup {AdminId} :
        /\ request' = [route |-> "GET /api/nominees", userId |-> userId,
                       body |-> None]
        /\ response' = [status |-> 200,
                        body |-> Some(getNomineesByUserId(Nominee, userId))]
        /\ UNCHANGED <<authVars, clientVars, userModel, mongoStorageVars, collectionVars,
                       concurrencyVars, registrationVars, now>>

NextCollections ==
    \/ MongoStorageCreateUser
    \/ CreateWellBeingAlert
    \/ PostNominees
    \/ PostAssets
    \/ PostMood
    \/ GetNominees

SpecCollections == Init /\ [][NextCollections]_vars

-----------------------------------------------------------------------------
(* SpecNominees: the nominee operations of MongoStorage by nominee id *)

NomineeIds == {"n1", "n2"}
NomineeSchemaPaths == {"userId", "fullName"}

\* the documents of a collection with the given _id
FindById(coll, id) == {d \in coll : d._id = id}

\* the nomineeData the callers hand to updateNominee
NomineeUpdates ==
    {[fullName |-> "n2"], [userId |-> "u2"], [userId |-> AdminId]}

\* updateNominee throws: the cast of id, the cast of the update's userId,
\* 'Nominee not found'
updateNomineeThrows(coll, id, nomineeData) ==
    \/ id \notin NomineeIds
    \/ "userId" \in DOMAIN nomineeData /\ CastError(nomineeData.userId)
    \/ FindById(coll, id) = {}

\* Nominee.findByIdAndUpdate(id, nomineeData, { new: true })
updateNominee(coll, id, nomineeData) ==
    IF updateNomineeThrows(coll, id, nomineeData)
    THEN coll
    ELSE {IF d._id = id
          THEN [f \in DOMAIN d |->
                  IF f \in DOMAIN nomineeData /\ f \in NomineeSchemaPaths
                  THEN nomineeData[f] ELSE d[f]]
          ELSE d : d \in coll}

\* Nominee.findByIdAndDelete(id)
deleteNominee(coll, id) == {d \in coll : d._id # id}

\* storage.createNominee(nomineeData); the document gets its _id
CreateNominee ==
    \E userId \in ObjectIds \cup {AdminId}, fullName \in FullNames :
        /\ {d._id : d \in Nominee} # NomineeIds
        /\ LET nomineeData ==
                  [_id |-> CHOOSE id \in NomineeIds \ {d._id : d \in Nominee} : TRUE,
                   userId |-> userId, fullName |-> fullName]
           IN  /\ Nominee' = createNominee(Nominee, nomineeData)
               /\ request' = [route |-> "createNominee", userId |-> userId,
                              body |-> Some([fullName |-> fullName])]
               /\ response' = [status |-> IF createNomineeThrows(nomineeData)
                                          THEN 500 ELSE 200,
                               body |-> None]
        /\ UNCHANGED <<authVars, clientVars, userModel, mongoStorageVars, Asset, MoodEntry,
                       AdminAction, concurrencyVars, registrationVars, now>>

\* storage.updateNominee(id, nomineeData)
UpdateNominee ==
    \E id \in NomineeIds \cup {AdminId}, nomineeData \in NomineeUpdates :
        /\ Nominee' = updateNominee(Nominee, id, nomineeData)
        /\ request' = [route |-> "updateNominee", userId |-> id,
                       body |-> Some(nomineeData)]
        /\ response' = [status |-> IF updateNomineeThrows(Nominee, id, nomineeData)
                                   THEN 500 ELSE 200,
                        body |-> None]
        /\ UNCHANGED <<authVars, clientVars, userModel, mongoStorageVars, Asset, MoodEntry,
                       AdminAction, concurrencyVars, registrationVars, now>>

\* storage.deleteNominee(id)
DeleteNominee ==
    \E id \in NomineeIds :
        /\ Nominee' = deleteNominee(Nominee, id)
        /\ request' = [route |-> "deleteNominee", userId |-> id, body |-> None]
        /\ response' = [status |-> 200, body |-> None]
        /\ UNCHANGED <<authVars, clientVars, userModel, mongoStorageVars, Asset, MoodEntry,
                       AdminAction, concurrencyVars, registrationVars, now>>

NextNominees ==
    \/ MongoStorageCreateUser
    \/ CreateNominee
    \/ UpdateNominee
    \/ DeleteNominee
    \/ GetNominees

SpecNominees == Init /\ [][NextNominees]_vars

-----------------------------------------------------------------------------
(* SpecAdminActions: the AdminAction collection of MongoStorage *)

\* AdminActionSchema: the enums of status and actionType, the paths
AdminActionStatuses == {"pending", "completed", "cancelled"}
AdminActionTypes ==
    {"death_verification", "notification_approved", "account_suspended"}
AdminActionSchemaPaths ==
    {"userId", "actionType", "adminId", "description", "status"}

ActionIds == {"a1", "a2"}

\* action.save() throws: the cast of userId, the enum of actionType, the
\* required adminId and description, the enum of status
createAdminActionThrows(actionData) ==
    \/ CastError(actionData.userId)
    \/ actionData.actionType \notin AdminActionTypes
    \/ actionData.adminId = None
    \/ actionData.description = None
    \/ /\ actionData.status # None
       /\ actionData.status[1] \notin AdminActionStatuses

createAdminAction(coll, actionData) ==
    IF createAdminActionThrows(actionData)
    THEN coll
    ELSE coll @@ ((CHOOSE id \in ActionIds \ DOMAIN coll : TRUE) :>
            [userId |-> actionData.userId,
             actionType |-> actionData.actionType,
             adminId |-> actionData.adminId[1],
             description |-> actionData.description[1],
             status |-> IF actionData.status = None
                        THEN "pending" ELSE actionData.status[1]])

\* updateAdminAction throws: the cast of id, 'Admin action not found'
updateAdminActionThrows(coll, id) ==
    \/ id \notin ActionIds
    \/ id \notin DOMAIN coll

\* AdminAction.findByIdAndUpdate(id, actionData, { new: true }): the update
\* runs no validator
updateAdminAction(coll, id, actionData) ==
    IF updateAdminActionThrows(coll, id)
    THEN coll
    ELSE [coll EXCEPT ![id] = StrictUpdate(AdminActionSchemaPaths, @, actionData)]

getPendingAdminActions(coll) ==
    {a \in DOMAIN coll : coll[a].status = "pending"}

\* the actionData the callers hand to createAdminAction
AdminActionData ==
    [userId : {"u1", AdminId},
     actionType : {"death_verification", "death_validation"},
     adminId : {None, Some(AdminId)},
     description : {None, Some("d")},
     status : {None, Some("completed"), Some("approved")}]

\* the actionData the callers hand to updateAdminAction
AdminActionUpdates ==
    {[status |-> st] : st \in AdminActionStatuses \cup {"approved"}}

\* storage.createAdminAction(actionData)
CreateAdminAction ==
    \E actionData \in AdminActionData :
        /\ DOMAIN AdminAction # ActionIds
        /\ AdminAction' = createAdminAction(AdminAction, actionData)
        /\ request' = [route |-> "createAdminAction",
                       userId |-> actionData.userId, body |-> Some(actionData)]
        /\ response' = [status |-> IF createAdminActionThrows(actionData)
                                   THEN 500 ELSE 200,
                        body |-> None]
        /\ UNCHANGED <<authVars, clientVars, Nominee, Asset, MoodEntry, concurrencyVars, userModel, mongoStorageVars, registrationVars, now>>

\* POST /api/admin/approve-death-validation
ApproveDeathValidation ==
    \E userId \in {"u1", AdminId} :
        LET actionData == [userId |-> userId,
                           actionType |-> "death_validation",
                           adminId |-> None,
                           description |-> None,
                           status |-> Some("approved")]
        IN  /\ DOMAIN AdminAction # ActionIds
            /\ AdminAction' = createAdminAction(AdminAction, actionData)
            /\ request' = [route |-> "POST /api/admin/approve-death-validation",
                           userId |-> userId, body |-> Some(actionData)]
            /\ response' = [status |-> IF createAdminActionThrows(actionData)
                                       THEN 500 ELSE 200,
                            body |-> None]
            /\ UNCHANGED <<authVars, clientVars, Nominee, Asset, MoodEntry, concurrencyVars, userModel, mongoStorageVars, registrationVars, now>>

\* storage.updateAdminAction(id, actionData)
UpdateAdminAction ==
    \E id \in ActionIds \cup {AdminId}, actionData \in AdminActionUpdates :
        /\ AdminAction' = updateAdminAction(AdminAction, id, actionData)
        /\ request' = [route |-> "updateAdminAction",
                       userId |-> id, body |-> Some(actionData)]
        /\ response' = [status |-> IF updateAdminActionThrows(AdminAction, id)
                                   THEN 500 ELSE 200,
                        body |-> None]
        /\ UNCHANGED <<authVars, clientVars, Nominee, Asset, MoodEntry, concurrencyVars, userModel, mongoStorageVars, registrationVars, now>>

NextAdminActions ==
    \/ CreateAdminAction
    \/ ApproveDeathValidation
    \/ UpdateAdminAction

SpecAdminActions == Init /\ [][NextAdminActions]_vars

-----------------------------------------------------------------------------
(* SpecConcurrent: increments and check-ins of MongoDBStorage received      *)
(* concurrently.  A request is received, then served by its one updateOne,  *)
(* which MongoDB applies atomically to the document; the requests pending   *)
(* are served in any order.                                                 *)

Slots == 1..MaxPending
FreeSlots == Slots \ {r.slot : r \in pending}

\* a request arrives
ReceiveRequest ==
    \E route \in {"incrementMissed", "POST /api/wellbeing/confirm"},
       userId \in UserIds :
        /\ FreeSlots # {}
        /\ pending' = pending \cup
              {[slot |-> CHOOSE f \in FreeSlots : \A g \in FreeSlots : f <= g,
                route |-> route, userId |-> userId]}
        /\ UNCHANGED <<authVars, clientVars, userModel, mongoStorageVars, collectionVars,
                       missedSinceCheckIn, registrationVars, now, request,
                       response>>

\* incrementWellBeingCounter of a pending request
ServeIncrement ==
    \E r \in pending :
        /\ r.route = "incrementMissed"
        /\ r.userId \in DOMAIN userModel =>
              userModel[r.userId].wellBeingCounter < Num(MaxCounter)
        /\ userModel' = incrementWellBeingCounter(userModel, r.userId)
        /\ missedSinceCheckIn' =
              IF r.userId \in DOMAIN userModel
              THEN [missedSinceCheckIn EXCEPT ![r.userId] = @ + 1]
              ELSE missedSinceCheckIn
        /\ pending' = pending \ {r}
        /\ request' = [route |-> r.route, userId |-> r.userId, body |-> None]
        /\ response' = [status |-> 200, body |-> None]
        /\ UNCHANGED <<authVars, clientVars, mongoStorageVars, collectionVars, registrationVars, now>>

\* updateUserWellBeing of a pending request
ServeCheckIn ==
    \E r \in pending :
        /\ r.route = "POST /api/wellbeing/confirm"
        /\ userModel' = updateUserWellBeing(userModel, r.userId, now)
        /\ missedSinceCheckIn' =
              IF r.userId \in DOMAIN userModel
              THEN [missedSinceCheckIn EXCEPT ![r.userId] = 0]
              ELSE missedSinceCheckIn
        /\ pending' = pending \ {r}
        /\ request' = [route |-> r.route, userId |-> r.userId, body |-> None]
        /\ response' = [status |-> 200, body |-> None]
        /\ UNCHANGED <<authVars, clientVars, mongoStorageVars, collectionVars, registrationVars, now>>

NextConcurrent ==
    \/ Tick
    \/ CreateUser
    \/ ReceiveRequest
    \/ ServeIncrement
    \/ ServeCheckIn

SpecConcurrent == Init /\ [][NextConcurrent]_vars

-----------------------------------------------------------------------------
(* SpecSettingsConcurrent: settings updates received while counter          *)
(* mutations of the same user are in flight, over MongoDBStorage            *)

\* the bodies of the settings requests of this specification
ConcurrentSettingsBodies ==
    {body \in SettingsBodies :
        /\ body.alertFrequency = "custom"
        /\ body.customDays = Some(Num(7))
        /\ body.maxMissedAlerts \in {Num(0), Num(1), Num(5)}
        /\ body.escalationEnabled}

\* PUT /api/wellbeing/settings up to the storage call: the body is parsed
ReceiveSettings ==
    \E userId \in UserIds, body \in ConcurrentSettingsBodies :
        /\ FreeSlots # {}
        /\ IF wellBeingSettingsSchema(body)
           THEN /\ pending' = pending \cup
                      {[slot |-> CHOOSE sl \in FreeSlots :
                                    \A other \in FreeSlots : sl <= other,
                        route |-> "PUT /api/wellbeing/settings",
                        userId |-> userId,
                        body |-> body]}
                /\ UNCHANGED <<request, response>>
           ELSE /\ pending' = pending
                /\ request' = [route |-> "PUT /api/wellbeing/settings",
                               userId |-> userId, body |-> Some(body)]
                /\ response' = [status |-> 400, body |-> None]
        /\ UNCHANGED <<authVars, clientVars, userModel, missedSinceCheckIn, mongoStorageVars, collectionVars, registrationVars, now>>

\* updateUserWellBeingSettings of a pending request
ServeSettings ==
    \E r \in pending :
        /\ r.route = "PUT /api/wellbeing/settings"
        /\ \E upd \in UpdateObjects(SettingsUpdate(r.body)) :
              userModel' = updateUserWellBeingSettings(userModel, r.userId, upd)
        /\ pending' = pending \ {r}
        /\ request' = [route |-> r.route, userId |-> r.userId,
                       body |-> Some(r.body)]
        /\ response' = [status |-> 200, body |-> None]
        /\ UNCHANGED <<authVars, clientVars, missedSinceCheckIn, mongoStorageVars, collectionVars, registrationVars, now>>

NextSettingsConcurrent ==
    \/ CreateUser
    \/ ReceiveRequest
    \/ ServeIncrement
    \/ ServeCheckIn
    \/ ReceiveSettings
    \/ ServeSettings

SpecSettingsConcurrent == Init /\ [][NextSettingsConcurrent]_vars

-----------------------------------------------------------------------------
(* SpecRegistrationConcurrent: the handlers of POST /api/register/step1 and  *)
(* step2 of routes, interleaved at their awaits                              *)

Step1Pending == {r \in pending : r.route = "POST /api/register/step1"}
Step2Pending == {r \in pending : r.route = "POST /api/register/step2"}

\* step 1 up to the answer of await storage.getUserByMobile(...)
Step1Lookup ==
    \E mobileNumber \in Mobiles :
        /\ FreeSlots # {}
        /\ IF getUserByMobile(User, mobileNumber) # {}
           THEN /\ pending' = pending
                /\ request' = [route |-> "POST /api/register/step1",
                               userId |-> AdminId,
                               body |-> Some([mobileNumber |-> mobileNumber])]
                /\ response' = [status |-> 400,
                                body |-> Some("Mobile number already registered")]
           ELSE /\ pending' = pending \cup
                      {[slot |-> CHOOSE sl \in FreeSlots :
                                    \A other \in FreeSlots : sl <= other,
                        route |-> "POST /api/register/step1",
                        mobileNumber |-> mobileNumber]}
                /\ UNCHANGED <<request, response>>
        /\ UNCHANGED <<authVars, clientVars, collectionVars, missedSinceCheckIn, userModel, mongoStorageVars, registrationVars, now>>

\* step 1 after the await: the tempId is generated and stored
Step1Store ==
    \E r \in Step1Pending :
        /\ registrationTempData' =
              MapSet(registrationTempData, TempId(r.mobileNumber, now),
                     [mobileNumber |-> r.mobileNumber])
        /\ pending' = pending \ {r}
        /\ request' = [route |-> "POST /api/register/step1", userId |-> AdminId,
                       body |-> Some([mobileNumber |-> r.mobileNumber])]
        /\ response' = [status |-> 200,
                        body |-> Some(TempId(r.mobileNumber, now))]
        /\ UNCHANGED <<authVars, clientVars, collectionVars, missedSinceCheckIn, userModel, mongoStorageVars, session, now>>

\* step 2 up to the answer of await storage.getUserByEmail(...)
Step2Lookup ==
    \E tempId \in TempIds, email \in Emails :
        /\ FreeSlots # {}
        /\ IF tempId \notin DOMAIN registrationTempData
           THEN /\ pending' = pending
                /\ request' = [route |-> "POST /api/register/step2",
                               userId |-> AdminId,
                               body |-> Some([tempId |-> tempId, email |-> email])]
                /\ response' = [status |-> 400,
                                body |-> Some("Please complete step 1 first or session expired")]
           ELSE IF getUserByEmail(User, email) # {}
           THEN /\ pending' = pending
                /\ request' = [route |-> "POST /api/register/step2",
                               userId |-> AdminId,
                               body |-> Some([tempId |-> tempId, email |-> email])]
                /\ response' = [status |-> 400,
                                body |-> Some("Email already registered")]
           ELSE /\ pending' = pending \cup
                      {[slot |-> CHOOSE sl \in FreeSlots :
                                    \A other \in FreeSlots : sl <= other,
                        route |-> "POST /api/register/step2",
                        tempId |-> tempId,
                        step1Data |-> registrationTempData[tempId],
                        email |-> email]}
                /\ UNCHANGED <<request, response>>
        /\ UNCHANGED <<authVars, clientVars, collectionVars, missedSinceCheckIn, userModel, mongoStorageVars, registrationVars, now>>

\* step 2 after the awaits: storage.createUser(userData), then
\* registrationTempData.delete(tempId)
Step2Create ==
    \E r \in Step2Pending :
        LET userData == [mobileNumber |-> r.step1Data.mobileNumber,
                         email |-> r.email]
        IN  /\ MongoStorage_createUserThrows(User, userData)
                  \/ DOMAIN User # ObjectIds
            /\ pending' = pending \ {r}
            /\ request' = [route |-> "POST /api/register/step2",
                           userId |-> AdminId,
                           body |-> Some([tempId |-> r.tempId, email |-> r.email])]
            /\ IF MongoStorage_createUserThrows(User, userData)
               THEN /\ response' = [status |-> 400,
                                    body |-> Some("Registration failed")]
                    /\ UNCHANGED <<User, registrationTempData>>
               ELSE /\ User' = MongoStorage_createUser(User, userData)
                    /\ registrationTempData' =
                          MapDelete(registrationTempData, r.tempId)
                    /\ response' = [status |-> 200,
                                    body |-> Some("Registration successful")]
            /\ UNCHANGED <<authVars, clientVars, collectionVars, missedSinceCheckIn, userModel, WellBeingAlert, session, now>>

NextRegistrationConcurrent ==
    \/ Tick
    \/ Step1Lookup
    \/ Step1Store
    \/ Step2Lookup
    \/ Step2Create

SpecRegistrationConcurrent == Init /\ [][NextRegistrationConcurrent]_vars

-----------------------------------------------------------------------------
(* Properties of SpecMongoDBStorage *)

\* C1: in every step, every user's counter is non-negative afterwards, and a
\* counter that is smaller after the step than before it was set to exactly 0
\* by a check-in (POST /api/wellbeing/confirm) of that user.
CounterDecreasesOnlyByCheckIn ==
    [][\A u \in DOMAIN userModel' :
          /\ userModel'[u].wellBeingCounter >= 0
          /\ (/\ u \in DOMAIN userModel
              /\ userModel'[u].wellBeingCounter < userModel[u].wellBeingCounter)
             => /\ request'.route = "POST /api/wellbeing/confirm"
                /\ request'.userId = u
                /\ userModel'[u].wellBeingCounter = 0]_vars

\* a check-in was served after the settings were changed: the counter is 0
CheckInServed ==
    /\ request.route = "POST /api/wellbeing/confirm"
    /\ request.userId \in DOMAIN userModel
    /\ userModel[request.userId].wellBeingCounter = 0
    /\ userModel[request.userId].lastWellBeingCheck = Some(MaxTime)
    /\ userModel[request.userId].maxWellBeingLimit = Num(5)

UnknownUserSurfaced ==
    [][(/\ request'.route \in {"POST /api/wellbeing/confirm", "incrementMissed"}
        /\ request'.userId \notin DOMAIN userModel)
       => /\ response'.status # 200
          /\ userModel' = userModel]_vars

\* C2: the result of getUsersWithExceededLimits is exactly the set of users
\* for which isExceeded holds: escalation enabled and counter >= threshold.
ListExceededIsExactlyIsExceeded ==
    getUsersWithExceededLimits(userModel) =
        {u \in DOMAIN userModel :
            /\ userModel[u].escalationEnabled
            /\ userModel[u].wellBeingCounter >= userModel[u].maxWellBeingLimit}

\* C3: a user whose escalationEnabled is false is not in the result of
\* getUsersWithExceededLimits.
EscalationDisabledNeverListed ==
    \A u \in DOMAIN userModel :
        ~userModel[u].escalationEnabled
            => u \notin getUsersWithExceededLimits(userModel)

\* C5: the result of getUsersWithExceededLimits never holds the admin
\* pseudo-account, whatever requests were served with its token.
AdminNeverListed ==
    AdminId \notin getUsersWithExceededLimits(userModel)

\* the admin's counter was incremented while some user is over its threshold
AdminActedWhileListNonEmpty ==
    /\ request.route = "incrementMissed"
    /\ request.userId = AdminId
    /\ getUsersWithExceededLimits(userModel) # {}

\* C6: a settings update with alertFrequency "custom" whose customDays is
\* missing or outside [1,30] answers 400 and changes no stored document.
CustomWithoutDaysRejected ==
    [][(/\ request'.route = "PUT /api/wellbeing/settings"
        /\ request'.body[1].alertFrequency = "custom"
        /\ \/ request'.body[1].customDays = None
           \/ request'.body[1].customDays[1] < Num(1)
           \/ request'.body[1].customDays[1] > Num(30))
       => /\ response'.status = 400
          /\ userModel' = userModel]_vars

\* C7: every stored threshold is a positive integer.
ThresholdIsPositiveInteger ==
    \A u \in DOMAIN userModel :
        /\ IsInteger(userModel[u].maxWellBeingLimit)
        /\ userModel[u].maxWellBeingLimit >= Num(1)

-----------------------------------------------------------------------------
(* Properties of SpecMongoStorage *)

PutRoutes ==
    {"PUT /api/wellbeing/settings", "minimal PUT /api/wellbeing/settings"}

\* C4: a check-in (POST /api/wellbeing/confirm) of a user with escalation
\* enabled who is in the result of getUsersWithExceededLimits leaves the
\* count at 0, sets lastWellBeingCheck to the time of the check-in, and the
\* user is no longer in the result.
CheckInClearsExceeded ==
    [][(/\ request'.route = "POST /api/wellbeing/confirm"
        /\ request'.userId \in
              MongoStorage_getUsersWithExceededLimits(User, WellBeingAlert)
        /\ WellBeingAlert[request'.userId].escalationEnabled)
       => /\ WellBeingAlert'[request'.userId].currentCount = 0
          /\ Path(User'[request'.userId], "lastWellBeingCheck", None) = Some(now)
          /\ request'.userId \notin
                MongoStorage_getUsersWithExceededLimits(User', WellBeingAlert')]_vars

\* C17: after a check-in (POST /api/wellbeing/confirm answered 200) of an
\* existing user, no WellBeingAlert of that user remains open: its
\* currentCount is 0.
CheckInClosesAlerts ==
    (/\ request.route = "POST /api/wellbeing/confirm"
     /\ response.status = 200
     /\ request.userId \in DOMAIN User
     /\ request.userId \in DOMAIN WellBeingAlert)
        => WellBeingAlert[request.userId].currentCount = 0

\* C8: a settings update never changes a count, and the GET that follows a
\* successful PUT of maxMissedAlerts = 5 by the same user answers 5.
SettingsRoundTrip ==
    [][/\ request'.route \in PutRoutes => WellBeingAlert' = WellBeingAlert
       /\ (/\ request.route \in PutRoutes
           /\ response.status = 200
           /\ request.body[1].maxMissedAlerts = Num(5)
           /\ request'.route = "GET /api/wellbeing/settings"
           /\ request'.userId = request.userId
           /\ response'.status = 200)
          => response'.body[1].maxMissedAlerts = Num(5)]_vars

\* C9: a settings update answered 200 for a stored user leaves the user with
\* the settings of the request, and changes no count and no last check-in.
SettingsUpdatePersists ==
    [][(/\ request'.route \in PutRoutes
        /\ response'.status = 200
        /\ request'.userId \in DOMAIN User)
       => /\ SettingsOf(User'[request'.userId]) =
                [request'.body[1] EXCEPT !.customDays = @[1]]
          /\ WellBeingAlert' = WellBeingAlert
          /\ Path(User'[request'.userId], "lastWellBeingCheck", None) =
                Path(User[request'.userId], "lastWellBeingCheck", None)]_vars

\* C13: every user getUsersWithExceededLimits returns has well-being
\* settings (an alert document) whose threshold is positive.
ListedHasPositiveThreshold ==
    \A u \in MongoStorage_getUsersWithExceededLimits(User, WellBeingAlert) :
        /\ u \in DOMAIN WellBeingAlert
        /\ WellBeingAlert[u].maxMissedAlerts > 0

-----------------------------------------------------------------------------
(* Properties of SpecRegistration *)

Step1Routes ==
    {"POST /api/register/step1", "minimal POST /api/register/step1"}
Step2Routes ==
    {"POST /api/register/step2", "minimal POST /api/register/step2"}

\* C10: a step 1 whose mobile number is the one of a stored user, and a
\* step 2 whose email is the one of a stored user, answer 400 and write no
\* User.
DuplicateRegistrationRejected ==
    [][/\ (/\ request'.route \in Step1Routes
           /\ \E u \in DOMAIN User :
                 User[u].mobileNumber = request'.body[1].mobileNumber)
          => /\ response'.status = 400
             /\ User' = User
       /\ (/\ request'.route \in Step2Routes
           /\ \E u \in DOMAIN User : User[u].email = request'.body[1].email)
          => /\ response'.status = 400
             /\ User' = User]_vars

\* a step 2 was refused for the email of a stored user, the mobile number of
\* its step 1 being another one than that user's
DuplicateEmailRefused ==
    /\ request.route = "POST /api/register/step2"
    /\ response.status = 400
    /\ request.body[1].tempId \in DOMAIN registrationTempData
    /\ \E u \in DOMAIN User :
          /\ User[u].email = request.body[1].email
          /\ User[u].mobileNumber # request.body[1].tempId[1]

\* C27: a step that creates a User is a step 2 naming a tempId that is in
\* the map (or, for routes-minimal, with the session's step-1 data present)
\* and removes it; a tempId enters the map only in a successful step 1, for
\* a mobile number no User has; a step 2 answered 400 leaves the map and the
\* session as they were.
Step2ConsumesToken ==
    [][/\ User' # User
          => /\ Cardinality(DOMAIN User') = Cardinality(DOMAIN User) + 1
             /\ DOMAIN User \subseteq DOMAIN User'
             /\ response'.status = 200
             /\ \/ /\ request'.route = "POST /api/register/step2"
                   /\ request'.body[1].tempId \in DOMAIN registrationTempData
                   /\ request'.body[1].tempId \notin DOMAIN registrationTempData'
                \/ /\ request'.route = "minimal POST /api/register/step2"
                   /\ session # None
                   /\ session' = None
       /\ \A tempId \in DOMAIN registrationTempData' \ DOMAIN registrationTempData :
             /\ request'.route = "POST /api/register/step1"
             /\ response' = [status |-> 200, body |-> Some(tempId)]
             /\ getUserByMobile(User, tempId[1]) = {}
       /\ (request'.route \in Step2Routes /\ response'.status = 400)
             => /\ registrationTempData' = registrationTempData
                /\ session' = session
                /\ User' = User]_vars

\* a step 2 created the User of its tempId and the tempId is gone, while the
\* other mobile number's tempId is still in the map
TokenConsumed ==
    /\ request.route = "POST /api/register/step2"
    /\ response.status = 200
    /\ request.body[1].tempId \notin DOMAIN registrationTempData
    /\ DOMAIN registrationTempData # {}
    /\ \E u \in DOMAIN User :
          /\ User[u].mobileNumber = request.body[1].tempId[1]
          /\ User[u].email = request.body[1].email

\* C15: every tempId step 1 issues expires: from some point on, a step 2
\* naming it is refused and creates no User.
TempIdsExpire ==
    \A tempId \in TempIds : <>[](~Step2Accepts(tempId))

-----------------------------------------------------------------------------
(* Properties of SpecEscalationFair *)

\* escalation enabled, the threshold within 1..50 and within the counters
\* the model follows
Escalating(u) ==
    /\ u \in DOMAIN userModel
    /\ userModel[u].escalationEnabled
    /\ userModel[u].maxWellBeingLimit >= Num(1)
    /\ userModel[u].maxWellBeingLimit <= Num(50)
    /\ userModel[u].maxWellBeingLimit <= Num(MaxCounter)

Flagged(u) == u \in getUsersWithExceededLimits(userModel)

\* the last request was a check-in or an accepted settings update of u
CheckedInOrReconfigured(u) ==
    /\ request.userId = u
    /\ request.route \in {"POST /api/wellbeing/confirm",
                           "PUT /api/wellbeing/settings"}
    /\ response.status = 200

\* C24: while the scheduler keeps incrementing, a user with escalation
\* enabled and a threshold in 1..50 who neither checks in nor changes the
\* settings is eventually flagged; such a user is flagged exactly when the
\* counter has reached the threshold, and an increment never unflags.
EventuallyFlagged ==
    /\ \A u \in UserIds :
          Escalating(u) ~> (Flagged(u) \/ CheckedInOrReconfigured(u))
    /\ [](\A u \in UserIds :
             Escalating(u) =>
                (Flagged(u) <=> userModel[u].wellBeingCounter
                                   >= userModel[u].maxWellBeingLimit))
    /\ [][\A u \in UserIds :
             (request'.route = "incrementMissed" /\ Flagged(u))
                => u \in getUsersWithExceededLimits(userModel')]_vars

\* a flagged user was incremented once more and is still flagged
FlaggedStaysFlagged ==
    /\ request.route = "incrementMissed"
    /\ Escalating(request.userId)
    /\ Flagged(request.userId)
    /\ userModel[request.userId].maxWellBeingLimit = Num(1)
    /\ userModel[request.userId].wellBeingCounter = Num(2)

-----------------------------------------------------------------------------
(* Properties of SpecAccountStatus *)

\* C18: a user's accountStatus changes only in a step of PATCH
\* /api/admin/users/:userId/status for that user; the increment, the
\* check-in, the settings update and the list of users at risk leave every
\* accountStatus as it was, and a new user starts active.
StatusChangesOnlyByAdmin ==
    [][\A u \in DOMAIN userModel' :
          IF u \in DOMAIN userModel
          THEN userModel'[u].accountStatus # userModel[u].accountStatus
                  => /\ request'.route = "PATCH /api/admin/users/:userId/status"
                     /\ request'.userId = u
                     /\ request'.body = Some(userModel'[u].accountStatus)
          ELSE userModel'[u].accountStatus = "active"]_vars

\* an increment took an active user's counter to the threshold, and the
\* user is still active
ExceededStillActive ==
    /\ request.route = "incrementMissed"
    /\ request.userId \in getUsersWithExceededLimits(userModel)
    /\ userModel[request.userId].wellBeingCounter
          = userModel[request.userId].maxWellBeingLimit
    /\ userModel[request.userId].accountStatus = "active"

\* C21: no step removes a user document: the set of users only grows, and a
\* status update (deactivation included) changes nothing of a user but its
\* accountStatus.
UsersNeverRemoved ==
    [][/\ DOMAIN userModel \subseteq DOMAIN userModel'
       /\ request'.route = "PATCH /api/admin/users/:userId/status"
             => \A u \in DOMAIN userModel :
                   userModel'[u] =
                       [userModel[u] EXCEPT
                           !.accountStatus = userModel'[u].accountStatus]]_vars

\* the admin deactivated a user, whose document is still there
DeactivatedUserKept ==
    /\ request.route = "PATCH /api/admin/users/:userId/status"
    /\ request.body = Some("deactivated")
    /\ response.status = 200
    /\ request.userId \in DOMAIN userModel
    /\ userModel[request.userId].accountStatus = "deactivated"

-----------------------------------------------------------------------------
(* Properties of SpecSettingsConcurrent *)

-----------------------------------------------------------------------------
(* Properties of SpecRegistrationConcurrent *)

\* C22: under every interleaving of the registration handlers, no two User
\* documents share a mobile number and no two share an email.
UniqueMobileAndEmail ==
    \A u \in DOMAIN User, v \in DOMAIN User :
        u # v => /\ User[u].mobileNumber # User[v].mobileNumber
                 /\ User[u].email # User[v].email

\* two step 2 requests passed their lookups together; the later save was
\* refused by a unique index
ConcurrentStep2Refused ==
    /\ request.route = "POST /api/register/step2"
    /\ response = [status |-> 400, body |-> Some("Registration failed")]
    /\ \E u \in DOMAIN User :
          \/ /\ User[u].mobileNumber = request.body[1].tempId[1]
             /\ User[u].email # request.body[1].email
          \/ /\ User[u].email = request.body[1].email
             /\ User[u].mobileNumber # request.body[1].tempId[1]

-----------------------------------------------------------------------------
(* Properties of SpecAuth *)

\* C26: a request admitted by requireAdmin carries an access token signed by
\* the admin branch of POST /api/login; no token signed for a persisted user
\* is admitted.
OnlyAdminLoginTokenAdmitted ==
    (request.route = "requireAdmin" /\ response.status = 200)
        => /\ request.body[1].issuedBy = "POST /api/login (admin)"
           /\ request.userId \notin DOMAIN User

-----------------------------------------------------------------------------
(* Properties of SpecOtp *)

\* C28: an OTP login answered 200 submitted the OTP last sent for its
\* identifier, not more than the lifetime after it was sent and not used
\* before, and removes the stored OTP; an expired attempt removes it too; no
\* OTP sent opens more than one login.
OtpSingleUse ==
    [][/\ (/\ request'.route = "POST /api/login"
           /\ response'.status = 200)
          => LET identifier == request'.body[1].identifier
             IN  /\ identifier \in DOMAIN issuedOtps
                 /\ request'.body[1].otp = issuedOtps[identifier].otp
                 /\ now <= issuedOtps[identifier].issuedAt + OtpLifetime
                 /\ issuedOtps[identifier].logins = 0
                 /\ OtpKey(identifier) \notin DOMAIN registrationTempData'
       /\ (/\ request'.route = "POST /api/login"
           /\ response'.body = Some("OTP expired"))
          => OtpKey(request'.body[1].identifier)
                \notin DOMAIN registrationTempData'
       /\ \A identifier \in DOMAIN issuedOtps' :
             issuedOtps'[identifier].logins <= 1]_vars

\* an OTP opened a login after an older OTP for the same identifier had been
\* replaced by it
OtpLoginServed ==
    /\ request.route = "POST /api/login"
    /\ response.status = 200
    /\ issuedOtps[request.body[1].identifier].logins = 1
    /\ issuedOtps[request.body[1].identifier].issuedAt = 1
    /\ now = MaxOtpTime
    /\ OtpKey(request.body[1].identifier) \notin DOMAIN registrationTempData

-----------------------------------------------------------------------------
(* Properties of SpecClient *)

\* C29: when apiRequest got a 401 and the refresh succeeded, the request was
\* fetched once more, with the access token the refresh issued and with the
\* method and the body of the first fetch.
RetryCarriesNewToken ==
    (/\ request.route = "apiRequest"
     /\ Len(fetched) = 3)
        => /\ fetched[3].url = fetched[1].url
           /\ fetched[3].method = fetched[1].method
           /\ fetched[3].body = fetched[1].body
           /\ fetched[3].headers["Authorization"]
                = Bearer(request.body[1].refreshRes.accessToken[1])

\* C30: when apiRequest got a 401 and no refresh succeeded (no refresh token
\* stored, the refresh answered not OK or without success, or its fetch
\* failed), localStorage is left without accessToken, refreshToken and
\* tokenExpiry; and apiRequest, login and refreshAccessToken leave the three
\* either all stored or all absent.
TokensClearedTogether ==
    [][/\ (/\ request'.route = "apiRequest"
           /\ response'.status = 401
           /\ Len(fetched') < 3)
          => DOMAIN localStorage' \cap TokenKeys = {}
       /\ DOMAIN localStorage' \cap TokenKeys \in {{}, TokenKeys}]_vars

\* tokens were stored, a request was answered 401, the refresh was attempted
\* and did not succeed, and the tokens are gone
RefreshFailedTokensCleared ==
    /\ request.route = "apiRequest"
    /\ response.status = 401
    /\ Len(fetched) = 2
    /\ "Authorization" \in DOMAIN fetched[1].headers
    /\ DOMAIN localStorage \cap TokenKeys = {}

-----------------------------------------------------------------------------
(* Properties of SpecNominees *)

\* C25: a nominee belongs to one user for its whole life: the list of a
\* user's nominees holds only nominees of that user, and no step changes the
\* userId of a stored nominee.
NomineeOwnerFixed ==
    [][/\ request'.route = "GET /api/nominees"
          => \A d \in response'.body[1] : d.userId = request'.userId
       /\ \A d \in Nominee, e \in Nominee' :
             d._id = e._id => d.userId = e.userId]_vars

-----------------------------------------------------------------------------
(* Properties of SpecAdminActions *)

\* C19: every stored AdminAction has a status among pending, completed and
\* cancelled, and a step that changes the status of a stored action takes it
\* from pending to completed or cancelled.
AdminActionStatusLifecycle ==
    [][/\ \A a \in DOMAIN AdminAction' :
              AdminAction'[a].status \in AdminActionStatuses
       /\ \A a \in DOMAIN AdminAction :
              AdminAction'[a].status # AdminAction[a].status
                  => /\ AdminAction[a].status = "pending"
                     /\ AdminAction'[a].status \in {"completed", "cancelled"}]_vars

-----------------------------------------------------------------------------
(* Properties of SpecCollections *)

\* C11: creating a Nominee for a userId that is the _id of no User is
\* refused, and the Nominee collection is unchanged.
NomineeNeedsUser ==
    [][(/\ request'.route = "POST /api/nominees"
        /\ request'.userId \notin DOMAIN User)
       => /\ response'.status # 200
          /\ Nominee' = Nominee]_vars

\* C12: every per-user query with the admin identifier finds nothing, and no
\* nominee, asset, mood entry or alert is owned by that identifier.
AdminOwnsNothing ==
    /\ getNomineesByUserId(Nominee, AdminId) = {}
    /\ getAssetsByUserId(Asset, AdminId) = {}
    /\ getMoodEntriesByUserId(MoodEntry, AdminId) = {}
    /\ getUserMoodEntries(MoodEntry, AdminId) = {}
    /\ getUserLatestMood(MoodEntry, AdminId) = None
    /\ getWellBeingAlerts(WellBeingAlert, AdminId) = {}
    /\ \A r \in Nominee \cup Asset \cup MoodEntry : r.userId # AdminId
    /\ AdminId \notin DOMAIN WellBeingAlert

\* the admin's token was used to create a nominee while every collection
\* holds rows
AdminTriedToOwn ==
    /\ request.route = "POST /api/nominees"
    /\ request.userId = AdminId
    /\ response.status = 400
    /\ Nominee # {} /\ Asset # {} /\ MoodEntry # {}
    /\ WellBeingAlert # <<>>

-----------------------------------------------------------------------------
(* Properties of SpecConcurrent *)

====
